---- MODULE Spec2Model ----
(***************************************************************************)
(* Model of the mt_rs crate: binary Merkle trees over byte strings with a  *)
(* pluggable hasher (src/src/hasher.rs), the bottom-up tree construction   *)
(* (src/src/merkletree.rs) and the inclusion-proof protocol                *)
(* (src/src/proof.rs).                                                     *)
(*                                                                         *)
(* Byte strings are sequences.  A digest is a sequence of DigestLen cells  *)
(* ([u8; 32]).  DummyHasher is modelled byte for byte.  SHA256Hasher (and  *)
(* the Keccak/Blake3 hashers, which differ only in the primitive they      *)
(* call) is modelled as a collision-free hash: its first cell carries the  *)
(* hashed input as a term and the other cells are empty terms, so distinct *)
(* inputs have distinct digests and equal inputs equal digests.            *)
(***************************************************************************)
EXTENDS Integers, Sequences, FiniteSets, TLC

\* ---------------------------------------------------------------- bounds
\* all input lists over Items up to this length are explored
MaxFull == 3
\* the inputs "a", "ab".., of pairwise distinct one-byte items up to this length
MaxLen == 10
\* longest proof path handed to verify that generate did not produce
MaxPath == 2

\* ------------------------------------------------------ program constants
\* [u8; 32]
DigestLen == 32

Items == {<<97>>, <<98>>}

Distinct(n) == [i \in 1..n |-> <<96 + i>>]

Lists(S, n) == UNION {[1..k -> S] : k \in 0..n}

Inputs == Lists(Items, MaxFull) \cup {Distinct(n) : n \in 0..MaxLen}

Hashers == {"Dummy", "SHA256"}

Min(a, b) == IF a < b THEN a ELSE b

Last(s) == s[Len(s)]

\* ---------------------------------------------------------------- hasher
RECURSIVE SumBytes(_)
\* input.iter().map(|&b| b as u32).sum()  (inputs here are far below 2^32)
SumBytes(input) ==
    IF input = <<>> THEN 0 ELSE input[1] + SumBytes(Tail(input))

RECURSIVE HexDigits(_)
\* format!("{:x}", sum): the hexadecimal digits, most significant first
HexDigits(n) ==
    IF n < 16 THEN <<n>> ELSE Append(HexDigits(n \div 16), n % 16)

\* Vec::<u8>::from_hex(..).unwrap_or_default(): an odd number of digits is
\* an error and yields the empty vector
FromHex(ds) ==
    IF Len(ds) % 2 # 0 THEN <<>>
    ELSE [i \in 1..(Len(ds) \div 2) |-> 16 * ds[2 * i - 1] + ds[2 * i]]

DummyHash(input) ==
    LET bytes == FromHex(HexDigits(SumBytes(input)))
    IN  [i \in 1..DigestLen |-> IF i <= Len(bytes) THEN bytes[i] ELSE 0]

\* a faulty variant: the input is never fed to the digest state
SHA256HashNoUpdate(input) ==
    <<(<<>>)>> \o [i \in 1..(DigestLen - 1) |-> <<>>]

SHA256Hash(input) ==
    <<input>> \o [i \in 1..(DigestLen - 1) |-> <<>>]

Hash(h, input) ==
    IF h = "Dummy" THEN DummyHash(input) ELSE SHA256Hash(input)

\* a digest that is the hash of no tree node: [0u8; 32]
ZeroDigest(h) ==
    IF h = "Dummy" THEN [i \in 1..DigestLen |-> 0]
    ELSE [i \in 1..DigestLen |-> <<>>]

\* ------------------------------------------------------------------ node
NewLeaf(hash) == [hash |-> hash, kind |-> <<>>]

NewInternal(hash, left, right) == [hash |-> hash, kind |-> <<left, right>>]

Hashes(level) == [i \in 1..Len(level) |-> level[i].hash]

\* ------------------------------------------------------------ merkletree
\* a faulty variant: the assertion on the input is missing
InputAcceptedAlways(d) == TRUE

\* assert!(!data_slices.is_empty(), ..)
InputAccepted(d) == Len(d) # 0

\* a faulty variant: the leaf list is padded once in new, as merkle::merkletree does
HashLeavesPadded(h, d) ==
    LET ls == [i \in 1..Len(d) |-> NewLeaf(Hash(h, d[i]))]
    IN  IF Len(ls) % 2 # 0 THEN Append(ls, Last(ls)) ELSE ls

\* data_slices.iter().map(|data| Node::new_leaf(hasher.hash(data))).collect()
HashLeaves(h, d) == [i \in 1..Len(d) |-> NewLeaf(Hash(h, d[i]))]

\* a faulty variant: an odd level is padded with its first node
PadLevelFirst(level) ==
    IF Len(level) % 2 # 0 THEN Append(level, level[1]) ELSE level

\* a faulty variant: a level of odd length is not padded
PadLevelNever(level) == level

\* if current_level.len() % 2 != 0 { current_level.push(last.clone()) }
PadLevel(level) ==
    IF Len(level) % 2 # 0 THEN Append(level, Last(level)) ELSE level

\* a faulty variant: the two child digests are concatenated right first
CombineSwapped(h, left, right) ==
    NewInternal(Hash(h, right.hash \o left.hash), left, right)

\* the closure of par_chunks(2).map(..): buffer = left_hash ++ right_hash
Combine(h, left, right) ==
    NewInternal(Hash(h, left.hash \o right.hash), left, right)

\* a faulty variant: windows(2) in place of chunks(2), every two
\* neighbours are combined
CombinePairsWindows(h, level) ==
    [i \in 1..(Len(level) - 1) |-> Combine(h, level[i], level[i + 1])]

\* par_chunks(2).map(..).collect() on a level of even length: the parents
\* in pair order
CombinePairs(h, level) ==
    [i \in 1..(Len(level) \div 2) |-> Combine(h, level[2 * i - 1], level[2 * i])]

\* a faulty variant: the leaves are cloned after the first padding
KeptLeavesPadded(nodes) == IF Len(nodes) > 1 THEN PadLevel(nodes) ELSE nodes

\* let leaves = nodes.clone()
KeptLeaves(nodes) == nodes

\* a faulty variant: the height is the number of rounds
FinalHeightRounds(rounds) == rounds

\* a faulty variant: the round counter starts at one
FinalHeightFromOne(rounds) == rounds + 2

\* height: height + 1
FinalHeight(rounds) == rounds + 1

\* ----------------------------------------------------------------- proof
\* a faulty variant: the parent digest is taken over the right digest first
ProoferCombineSwapped(h, left, right) ==
    NewInternal(Hash(h, right.hash \o left.hash), left, right)

\* the closure of par_chunks(2).map(..) in DefaultProofer::new:
\* combined = left.hash() ++ right.hash()
ProoferCombine(h, left, right) ==
    NewInternal(Hash(h, left.hash \o right.hash), left, right)

\* par_chunks(2).map(..).collect() in DefaultProofer::new
ProoferCombinePairs(h, level) ==
    [i \in 1..(Len(level) \div 2) |->
        ProoferCombine(h, level[2 * i - 1], level[2 * i])]

\* a faulty variant: the sibling is always taken to be the left operand
ChildTypeAlwaysLeft(sibling_index, current_index) == "Left"

ChildType(sibling_index, current_index) ==
    IF sibling_index < current_index THEN "Left" ELSE "Right"

\* a faulty variant: the sibling is always the next node
Xor1Next(i) == i + 1

\* current_index ^ 1
Xor1(i) == IF i % 2 = 0 THEN i + 1 ELSE i - 1

\* (current_index ^ 1).min(level.len() - 1)
SiblingIndex(current_index, len) == Min(Xor1(current_index), len - 1)

\* a faulty variant: the bound check is off by one
IndexOutOfRangeStrict(index, len) == index > len

\* if index >= self.levels[0].len() { return None; }
IndexOutOfRange(index, len) == index >= len

NoProof == [some |-> FALSE, path |-> <<>>, leaf_index |-> 0]

RECURSIVE GeneratePath(_, _, _)
\* the loop of generate over self.levels[..self.levels.len() - 1], from
\* level k (1-based) on
GeneratePath(lvls, k, current_index) ==
    IF k >= Len(lvls) THEN <<>>
    ELSE LET level == lvls[k]
             sibling_index == SiblingIndex(current_index, Len(level))
             node == [hash |-> level[sibling_index + 1].hash,
                      child_type |-> ChildType(sibling_index, current_index)]
         IN  <<node>> \o GeneratePath(lvls, k + 1, current_index \div 2)

RECURSIVE GeneratePanics(_, _, _)
\* level.len() - 1 underflows on an empty level and level[sibling_index]
\* is bounds-checked
GeneratePanics(lvls, k, current_index) ==
    IF k >= Len(lvls) THEN FALSE
    ELSE \/ Len(lvls[k]) = 0
         \/ SiblingIndex(current_index, Len(lvls[k])) >= Len(lvls[k])
         \/ SiblingIndex(current_index, Len(lvls[k])) < 0
         \/ GeneratePanics(lvls, k + 1, current_index \div 2)

GenerateProof(lvls, index) ==
    IF IndexOutOfRange(index, Len(lvls[1])) THEN NoProof
    ELSE [some |-> TRUE, path |-> GeneratePath(lvls, 1, index),
          leaf_index |-> index]

\* a faulty variant: the operands are placed the other way round
CombinedArraySwapped(proof_node, current_hash) ==
    IF proof_node.child_type = "Left"
    THEN [i \in 1..(2 * DigestLen) |->
            IF i <= DigestLen THEN current_hash[i]
            ELSE proof_node.hash[i - DigestLen]]
    ELSE [i \in 1..(2 * DigestLen) |->
            IF i <= DigestLen THEN proof_node.hash[i]
            ELSE current_hash[i - DigestLen]]

\* combined_array: result[..32] and result[32..] filled by copy_from_slice
CombinedArray(proof_node, current_hash) ==
    IF proof_node.child_type = "Left"
    THEN [i \in 1..(2 * DigestLen) |->
            IF i <= DigestLen THEN proof_node.hash[i]
            ELSE current_hash[i - DigestLen]]
    ELSE [i \in 1..(2 * DigestLen) |->
            IF i <= DigestLen THEN current_hash[i]
            ELSE proof_node.hash[i - DigestLen]]

RECURSIVE WalkPath(_, _, _, _)
\* for proof_node in &proof.path { current_hash = hasher.hash(combined) }
WalkPath(h, path, k, current_hash) ==
    IF k > Len(path) THEN current_hash
    ELSE WalkPath(h, path, k + 1, Hash(h, CombinedArray(path[k], current_hash)))

\* copy_from_slice panics when source and destination differ in length
CopyPanics(path, hash) ==
    \/ Len(hash) # DigestLen
    \/ \E k \in 1..Len(path) : Len(path[k].hash) # DigestLen

\* a faulty variant: a proof with an empty path is accepted for index 0 only
VerifyHashChecksIndex(h, proof, hash, root_hash) ==
    /\ Len(proof.path) = 0 => proof.leaf_index = 0
    /\ WalkPath(h, proof.path, 1, hash) = root_hash

\* current_hash == root_hash: an array against a slice of any length
VerifyHash(h, proof, hash, root_hash) ==
    WalkPath(h, proof.path, 1, hash) = root_hash

\* verify: start with the hash of the data
VerifyData(h, proof, d, root_hash) ==
    VerifyHash(h, proof, Hash(h, d), root_hash)

\* ----------------------------------------------------------------- state
VARIABLES
    hasher,         \* the Hasher the tree and the proofer are built with
    data,           \* the items handed to MerkleTree::new
    pc,             \* position of MerkleTree::new / build
    panic,          \* message of the panic that ended a call, "" if none
    leaves,         \* build: let leaves = nodes.clone()
    current_level,  \* build: current_level
    next_level,     \* build: next_level
    height,         \* build: let mut height
    tree,           \* the MerkleTree returned by build
    ppc,            \* position of DefaultProofer::new
    p_level,        \* DefaultProofer::new: current_level
    levels,         \* DefaultProofer.levels
    g_index,        \* argument of the last generate call, -1 before any
    proof,          \* Option<MerkleProof> returned by the last generate call
    vcall,          \* arguments and result of the last verify call
    in_flight,      \* par_chunks(2).map: the pairs a worker is hashing
    results         \* par_chunks(2).map(..).collect(): the slots filled so far

vars == <<hasher, data, pc, panic, leaves, current_level, next_level, height,
          tree, ppc, p_level, levels, g_index, proof, vcall, in_flight,
          results>>

treeVars == <<pc, leaves, current_level, next_level, height, tree>>

prooferVars == <<ppc, p_level, levels>>

callVars == <<g_index, proof, vcall>>

parVars == <<in_flight, results>>

NoTree == [leaves |-> <<>>, height |-> 0, root |-> NewLeaf(<<>>)]

NoCall == [done |-> FALSE, proof |-> NoProof, data |-> <<>>,
           root_hash |-> <<>>, result |-> FALSE]

AssertMessage == "Merkle Tree requires at least one element"

ChunkMessage == "index out of bounds: the len is 1 but the index is 1"

RemoveMessage == "removal index (is 0) should be < len (is 0)"

IndexMessage == "index out of bounds"

CopyMessage == "source slice length does not match destination slice length"

Init ==
    /\ hasher \in Hashers
    /\ data \in Inputs
    /\ pc = "new"
    /\ panic = ""
    /\ leaves = <<>>
    /\ current_level = <<>>
    /\ next_level = <<>>
    /\ height = 0
    /\ tree = NoTree
    /\ ppc = "none"
    /\ p_level = <<>>
    /\ levels = <<>>
    /\ g_index = -1
    /\ proof = NoProof
    /\ vcall = NoCall
    /\ in_flight = {}
    /\ results = <<>>

\* ------------------------------------------------------- MerkleTree::new
\* MerkleTree::new up to the first test of the loop in build
New ==
    /\ pc = "new"
    /\ IF InputAccepted(data)
       THEN LET nodes == HashLeaves(hasher, data)
            IN  /\ leaves' = KeptLeaves(nodes)
                /\ current_level' = nodes
                /\ pc' = "build"
                /\ panic' = panic
       ELSE /\ pc' = "panicked"
            /\ panic' = AssertMessage
            /\ UNCHANGED <<leaves, current_level>>
    /\ UNCHANGED <<hasher, data, next_level, height, tree>>
    /\ UNCHANGED prooferVars
    /\ UNCHANGED callVars
    /\ UNCHANGED parVars

\* one iteration of while current_level.len() > 1
BuildRound ==
    /\ pc = "build"
    /\ Len(current_level) > 1
    /\ LET padded == PadLevel(current_level)
       IN  IF Len(padded) % 2 # 0
           THEN \* pair[1] of a chunk of one node
                /\ pc' = "panicked"
                /\ panic' = ChunkMessage
                /\ current_level' = padded
                /\ UNCHANGED <<next_level, height>>
           ELSE \* std::mem::swap(&mut current_level, &mut next_level)
                /\ current_level' = CombinePairs(hasher, padded)
                /\ next_level' = padded
                /\ height' = height + 1
                /\ UNCHANGED <<pc, panic>>
    /\ UNCHANGED <<hasher, data, leaves, tree>>
    /\ UNCHANGED prooferVars
    /\ UNCHANGED callVars
    /\ UNCHANGED parVars

\* the exit of the loop: let root = current_level.remove(0)
BuildFinish ==
    /\ pc = "build"
    /\ ~(Len(current_level) > 1)
    /\ IF Len(current_level) = 0
       THEN /\ pc' = "panicked"
            /\ panic' = RemoveMessage
            /\ UNCHANGED <<current_level, tree>>
       ELSE /\ tree' = [leaves |-> leaves, height |-> FinalHeight(height),
                        root |-> current_level[1]]
            /\ current_level' = Tail(current_level)
            /\ pc' = "built"
            /\ panic' = panic
    /\ UNCHANGED <<hasher, data, leaves, next_level, height>>
    /\ UNCHANGED prooferVars
    /\ UNCHANGED callVars
    /\ UNCHANGED parVars

\* MerkleTree::len
TreeLen(t) == Len(t.leaves)

\* MerkleTree::is_empty
TreeIsEmpty(t) == TreeLen(t) = 0

\* --------------------------------------------------- DefaultProofer::new
\* DefaultProofer::new(hasher, tree.leaves()) up to the first loop test
ProoferNew ==
    /\ ppc = "none"
    /\ pc = "built"
    /\ levels' = <<tree.leaves>>
    /\ p_level' = tree.leaves
    /\ ppc' = "new"
    /\ UNCHANGED <<hasher, data, panic>>
    /\ UNCHANGED treeVars
    /\ UNCHANGED callVars
    /\ UNCHANGED parVars

\* DefaultProofer::new(hasher, nodes) on leaves the caller hashed itself
\* (examples/proofer_blake3.rs), here when no tree could be built
ProoferNewDirect ==
    /\ ppc = "none"
    /\ pc = "panicked"
    /\ LET nodes == HashLeaves(hasher, data)
       IN  /\ levels' = <<nodes>>
           /\ p_level' = nodes
    /\ ppc' = "new"
    /\ UNCHANGED <<hasher, data, panic>>
    /\ UNCHANGED treeVars
    /\ UNCHANGED callVars
    /\ UNCHANGED parVars

\* one iteration of while current_level.len() > 1
ProoferRound ==
    /\ ppc = "new"
    /\ Len(p_level) > 1
    /\ LET padded == PadLevel(p_level)
       IN  IF Len(padded) % 2 # 0
           THEN /\ ppc' = "panicked"
                /\ panic' = ChunkMessage
                /\ UNCHANGED <<p_level, levels>>
           ELSE /\ levels' = Append(levels, ProoferCombinePairs(hasher, padded))
                /\ p_level' = ProoferCombinePairs(hasher, padded)
                /\ UNCHANGED <<ppc, panic>>
    /\ UNCHANGED <<hasher, data>>
    /\ UNCHANGED treeVars
    /\ UNCHANGED callVars
    /\ UNCHANGED parVars

\* the exit of the loop: Self { hasher, levels }
ProoferDone ==
    /\ ppc = "new"
    /\ ~(Len(p_level) > 1)
    /\ ppc' = "ready"
    /\ UNCHANGED <<hasher, data, panic, p_level, levels>>
    /\ UNCHANGED treeVars
    /\ UNCHANGED callVars
    /\ UNCHANGED parVars

\* ------------------------------------------------------ generate / verify
\* Proofer::generate(index)
Generate(index) ==
    /\ ppc = "ready"
    /\ ~vcall.done
    /\ g_index' = index
    /\ IF ~IndexOutOfRange(index, Len(levels[1])) /\ GeneratePanics(levels, 1, index)
       THEN /\ panic' = IndexMessage
            /\ proof' = NoProof
       ELSE /\ proof' = GenerateProof(levels, index)
            /\ panic' = panic
    /\ UNCHANGED <<hasher, data, vcall>>
    /\ UNCHANGED treeVars
    /\ UNCHANGED prooferVars
    /\ UNCHANGED parVars

\* the digest the levels end in: the root the proofer recomputed
TopHash == Last(levels)[1].hash

\* sibling digests a caller may put in place of the generated ones
TamperDigests ==
    {ZeroDigest(hasher), Hash(hasher, <<120>>)}
        \cup (IF Len(levels[1]) > 0 THEN {levels[1][1].hash} ELSE {})

\* the generated proof with the digest of entry k replaced
Tampered(p) ==
    {[p EXCEPT !.path[k].hash = d] :
        k \in 1..Len(p.path), d \in TamperDigests}

ProofNodes ==
    [hash : {ZeroDigest(hasher), Hash(hasher, <<98>>)},
     child_type : {"Left", "Right"}]

\* proofs of the right type that no generate call returned
Forged ==
    {[some |-> TRUE, path |-> q, leaf_index |-> 7] :
        q \in Lists(ProofNodes, MaxPath)}

\* the proofs a caller may hand to verify: the one generate returned, that
\* one with a sibling digest replaced, or, for a caller that never called
\* generate, a made-up one
ProofInputs ==
    IF proof.some THEN {proof} \cup Tampered(proof)
    ELSE IF g_index = -1 THEN Forged ELSE {}

DataInputs ==
    {<<98>>, <<120>>}
        \cup (IF proof.some /\ proof.leaf_index < Len(data)
              THEN {data[proof.leaf_index + 1]} ELSE {<<97>>})

\* expected roots a caller may pass: byte slices of any length
RootInputs ==
    {<<>>, ZeroDigest(hasher)}
        \cup (IF Len(Last(levels)) > 0
              THEN {TopHash, SubSeq(TopHash, 1, DigestLen - 1),
                    TopHash \o <<TopHash[DigestLen]>>}
              ELSE {Hash(hasher, <<98>>)})
        \cup (IF pc = "built" THEN {tree.root.hash} ELSE {})

\* Proofer::verify(&proof, data, root_hash)
Verify(p, d, root_hash) ==
    /\ ppc = "ready"
    /\ ~vcall.done
    /\ IF CopyPanics(p.path, Hash(hasher, d))
       THEN /\ panic' = CopyMessage
            /\ vcall' = [done |-> TRUE, proof |-> p, data |-> d,
                         root_hash |-> root_hash, result |-> FALSE]
       ELSE /\ panic' = panic
            /\ vcall' = [done |-> TRUE, proof |-> p, data |-> d,
                         root_hash |-> root_hash,
                         result |-> VerifyData(hasher, p, d, root_hash)]
    /\ UNCHANGED <<hasher, data, g_index, proof>>
    /\ UNCHANGED treeVars
    /\ UNCHANGED prooferVars
    /\ UNCHANGED parVars

Next ==
    \/ New
    \/ BuildRound
    \/ BuildFinish
    \/ ProoferNew
    \/ ProoferNewDirect
    \/ ProoferRound
    \/ ProoferDone
    \/ \E index \in 0..(Len(data) + 1) : Generate(index)
    \/ /\ ppc = "ready"
       /\ ~vcall.done
       /\ \E p \in ProofInputs, d \in DataInputs, r \in RootInputs :
            Verify(p, d, r)

Spec == Init /\ [][Next]_vars

\* ------------------------------------- merkle::merkletree (older variant)
\* merkle::node::Node::new_internal: the hash of the two child hashes
\* written one after the other
OldNewInternal(h, left, right) ==
    NewInternal(Hash(h, left.hash \o right.hash), left, right)

\* if leaves.len() % 2 != 0 { leaves.push(leaves[leaves.len() - 1].clone()) }
OldPadLeaves(nodes) ==
    IF Len(nodes) % 2 # 0 THEN Append(nodes, Last(nodes)) ELSE nodes

\* merkle::merkletree::MerkleTree::new up to the first test of the loop in
\* build: the leaf list is padded once, build clones it as leaves
OldNew ==
    /\ pc = "new"
    /\ IF Len(data) # 0
       THEN LET nodes == OldPadLeaves(HashLeaves(hasher, data))
            IN  /\ leaves' = nodes
                /\ current_level' = nodes
                /\ pc' = "build"
                /\ panic' = panic
       ELSE /\ pc' = "panicked"
            /\ panic' = AssertMessage
            /\ UNCHANGED <<leaves, current_level>>
    /\ UNCHANGED <<hasher, data, next_level, height, tree>>
    /\ UNCHANGED prooferVars
    /\ UNCHANGED callVars
    /\ UNCHANGED parVars

\* one iteration of while nodes.len() > 1: for pair in nodes.chunks(2) with
\* pair[1] read in every chunk; the last chunk of a level of odd length
\* holds one node
OldBuildRound ==
    /\ pc = "build"
    /\ Len(current_level) > 1
    /\ IF Len(current_level) % 2 # 0
       THEN /\ pc' = "panicked"
            /\ panic' = ChunkMessage
            /\ UNCHANGED <<current_level, height>>
       ELSE /\ current_level' =
                [i \in 1..(Len(current_level) \div 2) |->
                    OldNewInternal(hasher, current_level[2 * i - 1],
                                   current_level[2 * i])]
            /\ height' = height + 1
            /\ UNCHANGED <<pc, panic>>
    /\ UNCHANGED <<hasher, data, leaves, next_level, tree>>
    /\ UNCHANGED prooferVars
    /\ UNCHANGED callVars
    /\ UNCHANGED parVars

\* let root = nodes.remove(0); MerkleTree { leaves, height: height + 1, root }
OldBuildFinish ==
    /\ pc = "build"
    /\ ~(Len(current_level) > 1)
    /\ IF Len(current_level) = 0
       THEN /\ pc' = "panicked"
            /\ panic' = RemoveMessage
            /\ UNCHANGED <<current_level, tree>>
       ELSE /\ tree' = [leaves |-> leaves, height |-> height + 1,
                        root |-> current_level[1]]
            /\ current_level' = Tail(current_level)
            /\ pc' = "built"
            /\ panic' = panic
    /\ UNCHANGED <<hasher, data, leaves, next_level, height>>
    /\ UNCHANGED prooferVars
    /\ UNCHANGED callVars
    /\ UNCHANGED parVars

OldNext ==
    \/ OldNew
    \/ OldBuildRound
    \/ OldBuildFinish

SpecOld == Init /\ [][OldNext]_vars

\* ------------------------------------- the rounds, one parallel task each
\* a slot of the collected vector that no worker has written yet
NoNode == NewLeaf(<<>>)

\* the vector collect() fills: one slot for every chunk
EmptySlots(n) == [i \in 1..n |-> NoNode]

\* a faulty variant: the results are pushed in the order the workers finish
PlaceResultArrival(slots, i, node) ==
    LET k == CHOOSE j \in 1..Len(slots) :
                /\ slots[j] = NoNode
                /\ \A l \in 1..(j - 1) : slots[l] # NoNode
    IN  [slots EXCEPT ![k] = node]

\* collect() of an indexed parallel iterator: the result of chunk i is
\* element i of the vector
PlaceResult(slots, i, node) == [slots EXCEPT ![i] = node]

\* a faulty variant: collect returns as soon as one chunk is mapped
AllCollectedFirst(slots, busy) ==
    \E i \in 1..Len(slots) : slots[i] # NoNode

\* collect() returns when every chunk has been mapped
AllCollected(slots, busy) ==
    /\ busy = {}
    /\ \A i \in 1..Len(slots) : slots[i] # NoNode

\* the top of an iteration of the loop in build: the test, the padding and
\* the split into chunks
ParPad ==
    /\ pc = "build"
    /\ Len(current_level) > 1
    /\ LET padded == PadLevel(current_level)
       IN  IF Len(padded) % 2 # 0
           THEN /\ pc' = "panicked"
                /\ panic' = ChunkMessage
                /\ current_level' = padded
                /\ UNCHANGED results
           ELSE /\ current_level' = padded
                /\ results' = EmptySlots(Len(padded) \div 2)
                /\ pc' = "map"
                /\ panic' = panic
    /\ in_flight' = {}
    /\ UNCHANGED <<hasher, data, leaves, next_level, height, tree>>
    /\ UNCHANGED prooferVars
    /\ UNCHANGED callVars

\* a worker thread takes chunk i of par_chunks(2)
TakePair(i) ==
    /\ pc = "map" \/ ppc = "map"
    /\ i \in 1..Len(results)
    /\ results[i] = NoNode
    /\ i \notin in_flight
    /\ in_flight' = in_flight \cup {i}
    /\ UNCHANGED <<hasher, data, panic, results>>
    /\ UNCHANGED treeVars
    /\ UNCHANGED prooferVars
    /\ UNCHANGED callVars

\* the worker that took chunk i of current_level returns from the closure
ParMap(i) ==
    /\ pc = "map"
    /\ i \in in_flight
    /\ results' = PlaceResult(results, i,
                     Combine(hasher, current_level[2 * i - 1],
                             current_level[2 * i]))
    /\ in_flight' = in_flight \ {i}
    /\ UNCHANGED <<hasher, data, panic>>
    /\ UNCHANGED treeVars
    /\ UNCHANGED prooferVars
    /\ UNCHANGED callVars

\* collect() returns; std::mem::swap(&mut current_level, &mut next_level);
\* height += 1
ParCollect ==
    /\ pc = "map"
    /\ AllCollected(results, in_flight)
    /\ current_level' = results
    /\ next_level' = current_level
    /\ height' = height + 1
    /\ pc' = "build"
    /\ results' = <<>>
    /\ in_flight' = {}
    /\ UNCHANGED <<hasher, data, panic, leaves, tree>>
    /\ UNCHANGED prooferVars
    /\ UNCHANGED callVars

\* the top of an iteration of the loop in DefaultProofer::new
ProoferPad ==
    /\ ppc = "new"
    /\ Len(p_level) > 1
    /\ LET padded == PadLevel(p_level)
       IN  IF Len(padded) % 2 # 0
           THEN /\ ppc' = "panicked"
                /\ panic' = ChunkMessage
                /\ p_level' = padded
                /\ UNCHANGED results
           ELSE /\ p_level' = padded
                /\ results' = EmptySlots(Len(padded) \div 2)
                /\ ppc' = "map"
                /\ panic' = panic
    /\ in_flight' = {}
    /\ UNCHANGED <<hasher, data, levels>>
    /\ UNCHANGED treeVars
    /\ UNCHANGED callVars

\* the worker that took chunk i of the proofer's current_level returns
ProoferMap(i) ==
    /\ ppc = "map"
    /\ i \in in_flight
    /\ results' = PlaceResult(results, i,
                     ProoferCombine(hasher, p_level[2 * i - 1],
                                    p_level[2 * i]))
    /\ in_flight' = in_flight \ {i}
    /\ UNCHANGED <<hasher, data, panic>>
    /\ UNCHANGED treeVars
    /\ UNCHANGED prooferVars
    /\ UNCHANGED callVars

\* collect() returns; levels.push(next_level.clone());
\* current_level = next_level
ProoferCollect ==
    /\ ppc = "map"
    /\ AllCollected(results, in_flight)
    /\ levels' = Append(levels, results)
    /\ p_level' = results
    /\ ppc' = "new"
    /\ results' = <<>>
    /\ in_flight' = {}
    /\ UNCHANGED <<hasher, data, panic>>
    /\ UNCHANGED treeVars
    /\ UNCHANGED callVars

NextPar ==
    \/ New
    \/ ParPad
    \/ \E i \in 1..Len(results) : TakePair(i)
    \/ \E i \in in_flight : ParMap(i)
    \/ ParCollect
    \/ BuildFinish
    \/ ProoferNew
    \/ ProoferPad
    \/ \E i \in in_flight : ProoferMap(i)
    \/ ProoferCollect
    \/ ProoferDone

SpecPar == Init /\ [][NextPar]_vars

\* the construction alone: MerkleTree::new and DefaultProofer::new run to
\* their return; a running call keeps taking steps
Construct ==
    \/ New
    \/ BuildRound
    \/ BuildFinish
    \/ ProoferNew
    \/ ProoferNewDirect
    \/ ProoferRound
    \/ ProoferDone

\* the two loops' iterations
Round == BuildRound \/ ProoferRound

\* ENABLED <<Round>>_vars: one of the loops is at its top with more than
\* one node
RoundEnabled ==
    \/ pc = "build" /\ Len(current_level) > 1
    \/ ppc = "new" /\ Len(p_level) > 1

\* a running call keeps taking steps: weak fairness of every step of the
\* construction, that of the rounds, WF_vars(Round), with the enabling
\* condition written out
ConstructFair ==
    /\ WF_vars(New)
    /\ WF_vars(BuildFinish)
    /\ WF_vars(ProoferNew)
    /\ WF_vars(ProoferNewDirect)
    /\ WF_vars(ProoferDone)
    /\ []<>(~RoundEnabled) \/ []<><<Round>>_vars

SpecLive == Init /\ [][Construct]_vars /\ ConstructFair

\* ------------------------------------------------------------ properties
RECURSIVE Pow2(_)
Pow2(k) == IF k = 0 THEN 1 ELSE 2 * Pow2(k - 1)

\* the least k with 2^k >= n
CeilLog2(n) == CHOOSE k \in 0..n : Pow2(k) >= n /\ \A j \in 0..(k - 1) : Pow2(j) < n

IsPow2(n) == \E k \in 0..n : Pow2(k) = n

LeafDigests == [i \in 1..Len(data) |-> Hash(hasher, data[i])]

\* the verify call was made with the proof generate returned, the item the
\* proof was generated for and the root of the tree
HonestCall ==
    /\ pc = "built"
    /\ vcall.done
    /\ proof.some
    /\ proof.leaf_index < Len(data)

\* C1: inclusion round trip: for every non-empty input and every index below
\* its length, generate returns a proof, and verifying that proof with the
\* item at the index against the root of the tree returns true.
InclusionRoundTrip ==
    /\ (pc = "built" /\ ppc = "ready" /\ g_index >= 0 /\ g_index < Len(data))
          => (proof.some /\ proof.leaf_index = g_index)
    /\ (/\ HonestCall
        /\ vcall.proof = proof
        /\ vcall.data = data[proof.leaf_index + 1]
        /\ vcall.root_hash = tree.root.hash) => vcall.result = TRUE

InclusionRoundTripWitness ==
    /\ HonestCall
    /\ hasher = "SHA256"
    /\ Len(data) = 5
    /\ proof.leaf_index = 4
    /\ vcall.proof = proof
    /\ vcall.data = data[5]
    /\ vcall.root_hash = tree.root.hash
    /\ vcall.result = TRUE

HeightIsRoundsPlusOne ==
    pc = "built"
        => /\ tree.height = height + 1
           /\ tree.height = CeilLog2(Len(data)) + 1
           /\ Len(data) = 1 => tree.height = 1
           /\ Len(data) = 2 => tree.height = 2
           /\ Len(data) = 3 => tree.height = 3
           /\ Len(data) = 10 => tree.height = 5

HeightIsRoundsPlusOneWitness ==
    /\ pc = "built"
    /\ Len(data) = 10
    /\ height = 4
    /\ tree.height = 5

\* C4 as stated: height() is the number of combination rounds: 3 items give
\* height 2, and a leaf count of 2^k gives height k.
HeightIsRounds ==
    pc = "built"
        => /\ tree.height = height
           /\ Len(data) = 3 => tree.height = 2
           /\ IsPow2(TreeLen(tree)) => tree.height = CeilLog2(TreeLen(tree))

\* C4 amended: height() is one more than the number of combination rounds:
\* 3 items give height 3, and a leaf count of 2^k gives height k + 1.
HeightIsLevels ==
    pc = "built"
        => /\ Len(data) = 3 => (height = 2 /\ tree.height = 3)
           /\ IsPow2(TreeLen(tree))
                => (/\ height = CeilLog2(TreeLen(tree))
                    /\ tree.height = CeilLog2(TreeLen(tree)) + 1)

HeightIsLevelsWitness ==
    /\ pc = "built"
    /\ TreeLen(tree) = 8
    /\ tree.height = 4

RECURSIVE RefLevel(_, _, _)
\* the reference reduction: level k above the digests ds, each round first
\* appending the last digest again to a level of odd length
RefLevel(h, ds, k) ==
    IF k = 0 THEN ds
    ELSE LET prev == RefLevel(h, ds, k - 1)
             even == IF Len(prev) % 2 = 1 THEN Append(prev, Last(prev)) ELSE prev
         IN  [i \in 1..(Len(even) \div 2) |-> Hash(h, even[2 * i - 1] \o even[2 * i])]

RECURSIVE RefRoot(_, _)
RefRoot(h, ds) ==
    IF Len(ds) = 1 THEN ds[1] ELSE RefRoot(h, RefLevel(h, ds, 1))

\* C5: padding at every level: new returns a tree for every non-empty input;
\* every level it builds is the level of the reference reduction (an odd
\* level gets its last node again, then consecutive pairs are hashed left
\* digest first), a level of 5 nodes yields the 3 parents (1,2),(3,4),(5,5),
\* and 3 items a,b,c yield the root H(H(H(a)++H(b)) ++ H(H(c)++H(c))).
PaddingAtEveryLevel ==
    /\ Len(data) > 0 => pc # "panicked"
    /\ pc = "build" => Hashes(current_level) = RefLevel(hasher, LeafDigests, height)
    /\ (pc = "build" /\ height > 0)
          => LET prev == RefLevel(hasher, LeafDigests, height - 1)
             IN  Len(prev) = 5
                    => /\ Len(current_level) = 3
                       /\ current_level[1].hash = Hash(hasher, prev[1] \o prev[2])
                       /\ current_level[2].hash = Hash(hasher, prev[3] \o prev[4])
                       /\ current_level[3].hash = Hash(hasher, prev[5] \o prev[5])
    /\ pc = "built" => tree.root.hash = RefRoot(hasher, LeafDigests)
    /\ (pc = "built" /\ Len(data) = 3)
          => tree.root.hash =
                Hash(hasher,
                     Hash(hasher, Hash(hasher, data[1]) \o Hash(hasher, data[2]))
                     \o Hash(hasher, Hash(hasher, data[3]) \o Hash(hasher, data[3])))

PaddingAtEveryLevelWitness ==
    /\ pc = "build"
    /\ hasher = "SHA256"
    /\ Len(data) = 10
    /\ height = 2
    /\ Len(next_level) = 6
    /\ Len(current_level) = 3
    /\ next_level[5] = next_level[6]
    /\ next_level[4] # next_level[5]

\* C6: single-leaf tree: for exactly one item x the root digest is H(x)
\* with no combination round, len() is 1, generate(0) returns a proof with
\* an empty path, and verifying it with x against the root returns true.
SingleLeafTree ==
    Len(data) = 1
        => /\ pc # "panicked"
           /\ pc = "built"
                => /\ tree.root.hash = Hash(hasher, data[1])
                   /\ height = 0
                   /\ TreeLen(tree) = 1
           /\ (pc = "built" /\ ppc = "ready" /\ g_index = 0)
                => (proof.some /\ proof.path = <<>>)
           /\ (/\ HonestCall
               /\ vcall.proof = proof
               /\ vcall.data = data[1]
               /\ vcall.root_hash = tree.root.hash) => vcall.result = TRUE

SingleLeafTreeWitness ==
    /\ Len(data) = 1
    /\ HonestCall
    /\ g_index = 0
    /\ vcall.proof = proof
    /\ proof.path = <<>>
    /\ vcall.data = data[1]
    /\ vcall.root_hash = tree.root.hash
    /\ vcall.result = TRUE

\* C7: out-of-range proof request: generate(index) returns None without
\* panicking for every index at or above the number of leaves the proofer
\* was built from (also for a proofer built from no leaves), and Some for
\* every index below it.
OutOfRangeIsNone ==
    (ppc = "ready" /\ g_index >= 0)
        => /\ panic # IndexMessage
           /\ g_index >= Len(levels[1]) => ~proof.some
           /\ g_index < Len(levels[1]) => proof.some

OutOfRangeIsNoneWitness ==
    /\ ppc = "ready"
    /\ Len(levels[1]) = 0
    /\ g_index = 0
    /\ ~proof.some

\* C8: construction from an empty input fails: new with zero items panics
\* with "Merkle Tree requires at least one element" and returns no tree, so
\* every tree returned has len() >= 1 and is_empty() false.
EmptyInputFails ==
    /\ (Len(data) = 0 /\ pc # "new")
          => (pc = "panicked" /\ panic = AssertMessage)
    /\ pc = "built" => (TreeLen(tree) >= 1 /\ ~TreeIsEmpty(tree))
    /\ pc \in {"build", "built"} => Len(data) >= 1

EmptyInputFailsWitness ==
    /\ Len(data) = 0
    /\ pc = "panicked"
    /\ panic = AssertMessage
    /\ tree = NoTree

RECURSIVE FoldPath(_, _, _)
\* the running digest folded over the path: H(sibling ++ running) for Left,
\* H(running ++ sibling) for Right
FoldPath(h, path, running) ==
    IF Len(path) = 0 THEN running
    ELSE FoldPath(h, Tail(path),
                  Hash(h, IF Head(path).child_type = "Left"
                          THEN Head(path).hash \o running
                          ELSE running \o Head(path).hash))

OneSiblingReplaced(p, q) ==
    /\ q.some
    /\ Len(q.path) = Len(p.path)
    /\ \E k \in 1..Len(p.path) :
          /\ q.path[k].hash # p.path[k].hash
          /\ \A j \in 1..Len(p.path) :
                /\ q.path[j].child_type = p.path[j].child_type
                /\ j # k => q.path[j].hash = p.path[j].hash

\* C10: tamper sensitivity under a collision-free hash: with p = generate(i)
\* and r the root of the tree, verify is false for p with any data other
\* than data[i], for p with one sibling digest replaced by a different one,
\* and for p with data[i] against any root other than r.
TamperSensitivity ==
    (hasher = "SHA256" /\ HonestCall)
        => /\ (/\ vcall.proof = proof
               /\ vcall.data # data[proof.leaf_index + 1]
               /\ vcall.root_hash = tree.root.hash) => vcall.result = FALSE
           /\ (/\ OneSiblingReplaced(proof, vcall.proof)
               /\ vcall.data = data[proof.leaf_index + 1]
               /\ vcall.root_hash = tree.root.hash) => vcall.result = FALSE
           /\ (/\ vcall.proof = proof
               /\ vcall.data = data[proof.leaf_index + 1]
               /\ vcall.root_hash # tree.root.hash) => vcall.result = FALSE

TamperSensitivityWitness ==
    /\ hasher = "SHA256"
    /\ HonestCall
    /\ Len(data) = 3
    /\ proof.leaf_index = 2
    /\ OneSiblingReplaced(proof, vcall.proof)
    /\ vcall.proof.path[2].hash # proof.path[2].hash
    /\ vcall.data = data[3]
    /\ vcall.root_hash = tree.root.hash
    /\ vcall.result = FALSE

\* index >> k
Shr(i, k) == i \div Pow2(k)

\* the position with the lowest bit flipped
FlipLowBit(i) == i + 1 - 2 * (i % 2)

\* C11: sibling path of generate(index): for a valid index the path has one
\* entry per level below the root, leaf level first; the entry of level k is
\* the digest at position min((index >> k) XOR 1, last index of level k),
\* with orientation Left if that position is below index >> k and Right
\* otherwise, so the unpaired last node of an odd level gets its own digest
\* with Right; for the leaves a,b,c,d generate(0) is
\* [(H(b), Right), (H(H(c)++H(d)), Right)].  Stated for the state generate
\* returns in: verify takes the proof by reference and leaves it as it is.
SiblingPathOfGenerate ==
    /\ (/\ ppc = "ready" /\ ~vcall.done
        /\ g_index >= 0 /\ g_index < Len(levels[1]))
          => /\ proof.some
             /\ Len(proof.path) = Len(levels) - 1
             /\ Len(proof.path) = CeilLog2(Len(levels[1]))
             /\ \A k \in 0..(Len(proof.path) - 1) :
                  LET lvl == RefLevel(hasher, Hashes(levels[1]), k)
                      cur == Shr(g_index, k)
                      pos == Min(FlipLowBit(cur), Len(lvl) - 1)
                  IN  /\ proof.path[k + 1].hash = lvl[pos + 1]
                      /\ proof.path[k + 1].child_type =
                            (IF pos < cur THEN "Left" ELSE "Right")
                      /\ (Len(lvl) % 2 = 1 /\ cur = Len(lvl) - 1)
                            => /\ proof.path[k + 1].hash = lvl[cur + 1]
                               /\ proof.path[k + 1].child_type = "Right"
    /\ (ppc = "ready" /\ pc = "built" /\ data = Distinct(4) /\ g_index = 0)
          => proof.path =
                <<[hash |-> Hash(hasher, <<98>>), child_type |-> "Right"],
                  [hash |-> Hash(hasher, Hash(hasher, <<99>>) \o Hash(hasher, <<100>>)),
                   child_type |-> "Right"]>>

SiblingPathOfGenerateWitness ==
    /\ ppc = "ready"
    /\ hasher = "SHA256"
    /\ Len(data) = 5
    /\ g_index = 4
    /\ proof.some
    /\ Len(proof.path) = 3
    /\ proof.path[1].hash = levels[1][5].hash
    /\ proof.path[1].child_type = "Right"
    /\ proof.path[2].hash = levels[2][3].hash
    /\ proof.path[3].child_type = "Left"

\* C13: DummyHasher.hash always returns a static hash value: every two
\* inputs have the same digest, so all leaves of a tree built with it, and
\* its root, carry one and the same digest.
DummyHashIsStatic ==
    (hasher = "Dummy" /\ pc \in {"build", "built"})
        => /\ \A i, j \in 1..Len(data) :
                DummyHash(data[i]) = DummyHash(data[j])
           /\ \A i, j \in 1..Len(leaves) : leaves[i].hash = leaves[j].hash
           /\ \A i \in 1..Len(current_level) :
                current_level[i].hash = leaves[1].hash

\* ceil(n / d)
CeilDiv(n, d) == (n + d - 1) \div d

\* C15: tree and proofer agree: a proofer built from tree.leaves() with the
\* same hasher stores exactly tree.height() levels, level 0 being the
\* leaves and level k having ceil(n / 2^k) nodes, and its top level is one
\* node whose digest is tree.root().hash().  Stated for the states up to the
\* verify call, which changes neither the tree nor the levels.
ProoferAgreesWithTree ==
    (pc = "built" /\ ppc = "ready" /\ ~vcall.done)
        => /\ Len(levels) = tree.height
           /\ levels[1] = tree.leaves
           /\ \A k \in 0..(Len(levels) - 1) :
                Len(levels[k + 1]) = CeilDiv(Len(data), Pow2(k))
           /\ Len(Last(levels)) = 1
           /\ Last(levels)[1].hash = tree.root.hash

ProoferAgreesWithTreeWitness ==
    /\ pc = "built"
    /\ ppc = "ready"
    /\ hasher = "SHA256"
    /\ Len(data) = 10
    /\ Len(levels) = 5
    /\ Len(levels[2]) = 5
    /\ Len(levels[3]) = 3
    /\ Len(levels[4]) = 2
    /\ Last(levels)[1].hash = tree.root.hash

RECURSIVE DigestInvariant(_, _)
\* every Internal node at or below the node has the digest
\* H(left.digest ++ right.digest)
DigestInvariant(h, node) ==
    IF Len(node.kind) = 0 THEN TRUE
    ELSE /\ Len(node.kind) = 2
         /\ node.hash = Hash(h, node.kind[1].hash \o node.kind[2].hash)
         /\ DigestInvariant(h, node.kind[1])
         /\ DigestInvariant(h, node.kind[2])

\* C16: internal-node digest invariant: in every tree new returns, every
\* Internal node reachable from the root has the digest
\* H(left.digest ++ right.digest), left digest first; every node of leaves()
\* is a Leaf with the digest H(data[i]) in input order; and the same holds
\* for the nodes of every level produced during construction.  The returned
\* tree is looked at in the states up to the verify call, which cannot
\* change it.
InternalDigestInvariant ==
    /\ pc \in {"build", "built"}
          => /\ Len(leaves) = Len(data)
             /\ \A i \in 1..Len(leaves) :
                  /\ Len(leaves[i].kind) = 0
                  /\ leaves[i].hash = Hash(hasher, data[i])
    /\ pc = "build"
          => /\ \A i \in 1..Len(current_level) :
                  /\ DigestInvariant(hasher, current_level[i])
                  /\ height > 0 => Len(current_level[i].kind) = 2
             /\ \A i \in 1..Len(next_level) :
                  DigestInvariant(hasher, next_level[i])
    /\ (pc = "built" /\ ~vcall.done)
          => /\ DigestInvariant(hasher, tree.root)
             /\ tree.leaves = leaves
             /\ Len(data) >= 2 => Len(tree.root.kind) = 2

InternalDigestInvariantWitness ==
    /\ pc = "built"
    /\ hasher = "SHA256"
    /\ Len(data) = 3
    /\ data[1] # data[2]
    /\ Len(tree.root.kind) = 2
    /\ tree.root.kind[1].kind = <<tree.leaves[1], tree.leaves[2]>>
    /\ tree.root.kind[2].kind = <<tree.leaves[3], tree.leaves[3]>>

RECURSIVE BuildLoop(_, _, _)
\* the loop of build run to its end on the level nodes after rounds rounds:
\* the sequence holding the root and the number of rounds
BuildLoop(h, nodes, rounds) ==
    IF Len(nodes) > 1
    THEN BuildLoop(h, CombinePairs(h, PadLevel(nodes)), rounds + 1)
    ELSE [rest |-> nodes, rounds |-> rounds]

\* MerkleTree::new(h, d) for a non-empty d, as a function of its arguments
BuildTree(h, d) ==
    LET nodes == HashLeaves(h, d)
        end == BuildLoop(h, nodes, 0)
    IN  [leaves |-> KeptLeaves(nodes), height |-> FinalHeight(end.rounds),
         root |-> end.rest[1]]

RECURSIVE ProoferLoop(_, _, _)
\* the loop of DefaultProofer::new run to its end
ProoferLoop(h, lvls, cur) ==
    IF Len(cur) > 1
    THEN LET next == ProoferCombinePairs(h, PadLevel(cur))
         IN  ProoferLoop(h, Append(lvls, next), next)
    ELSE lvls

\* the levels of DefaultProofer::new(h, nodes)
ProoferLevels(h, nodes) == ProoferLoop(h, <<nodes>>, nodes)

\* data ++ [data[n-1]]
Twin == Append(data, Last(data))

TwinTree == BuildTree(hasher, Twin)

TwinLevels == ProoferLevels(hasher, TwinTree.leaves)

\* C19: duplicate-padding collision of roots: for every input of odd length
\* n >= 3, the tree of data and the tree of data ++ [data[n-1]] have the same
\* root digest and the same height, only len() differs, and a proof
\* generated from either tree verifies against the other tree's root.
\* Neither tree nor proofer changes once the proofer is ready, so the
\* relation is stated for the states before the verify call.
DuplicatePaddingCollision ==
    (/\ pc = "built" /\ ppc = "ready" /\ ~vcall.done
     /\ Len(data) >= 3 /\ Len(data) % 2 = 1)
        => LET twin == Twin
               twinTree == BuildTree(hasher, twin)
               twinLevels == ProoferLevels(hasher, twinTree.leaves)
               twinRoot == twinTree.root.hash
               root == tree.root.hash
           IN  /\ BuildTree(hasher, data) = tree
               /\ ProoferLevels(hasher, tree.leaves) = levels
               /\ twinRoot = root
               /\ twinTree.height = tree.height
               /\ TreeLen(twinTree) = TreeLen(tree) + 1
               /\ \A j \in 0..(Len(data) - 1) :
                    VerifyData(hasher, GenerateProof(levels, j), data[j + 1],
                               twinRoot)
               /\ \A j \in 0..(Len(twin) - 1) :
                    VerifyData(hasher, GenerateProof(twinLevels, j),
                               twin[j + 1], root)
               /\ (proof.some /\ g_index < Len(data))
                    => VerifyData(hasher, proof, data[g_index + 1], twinRoot)

DuplicatePaddingCollisionWitness ==
    /\ pc = "built"
    /\ ppc = "ready"
    /\ hasher = "SHA256"
    /\ Len(data) = 5
    /\ proof.some
    /\ g_index = 4
    /\ TreeLen(tree) = 5
    /\ TreeLen(TwinTree) = 6
    /\ TwinTree.root.hash = tree.root.hash
    /\ GenerateProof(TwinLevels, 5).some
    /\ VerifyData(hasher, GenerateProof(TwinLevels, 5), Twin[6], tree.root.hash)

\* leaf indexes a proof may carry
LeafIndexes == {0, MaxLen + 1}

\* generate sets leaf_index to the requested index, and the result of
\* verify is the same for every leaf_index the proof could carry and is the
\* fold of the path alone, in which no stored level occurs
VerifyIndependentOfIndex ==
    /\ proof.some => proof.leaf_index = g_index
    /\ vcall.done
          => /\ \A li \in LeafIndexes :
                  VerifyData(hasher, [vcall.proof EXCEPT !.leaf_index = li],
                             vcall.data, vcall.root_hash) = vcall.result
             /\ vcall.result =
                  (FoldPath(hasher, vcall.proof.path,
                            Hash(hasher, vcall.data)) = vcall.root_hash)

\* generate(&self) and verify(&self) leave the proofer as it is
ProoferUnmodified ==
    ppc = "ready" => UNCHANGED <<hasher, ppc, p_level, levels>>

\* C20: verification does not depend on MerkleProof.leaf_index or on the
\* proofer's stored levels: proofs with equal path and different leaf_index
\* get the same result from verify, the result is determined by hasher,
\* path, data and root alone, generate sets leaf_index to the requested
\* index, and neither generate nor verify modifies the proofer.
VerifyIndependence ==
    []VerifyIndependentOfIndex /\ [][ProoferUnmodified]_vars

VerifyIndependenceWitness ==
    /\ vcall.done
    /\ ~proof.some
    /\ Len(data) = 1
    /\ Len(levels) = 1
    /\ vcall.proof.leaf_index = 7
    /\ Len(vcall.proof.path) = 0
    /\ vcall.data = data[1]
    /\ vcall.root_hash = TopHash
    /\ vcall.result = TRUE

\* the loops are where the round count says: after height rounds the level
\* has ceil(n / 2^height) nodes, the loop is left with exactly one node
\* after ceil(log2(n)) rounds, and remove(0) has an element to remove
RoundCount ==
    /\ pc = "build"
          => /\ Len(current_level) = CeilDiv(Len(data), Pow2(height))
             /\ Len(current_level) >= 1
             /\ Len(current_level) = 1 => height = CeilLog2(Len(data))
    /\ pc = "built"
          => /\ height = CeilLog2(Len(data))
             /\ Len(current_level) = 0
    /\ panic \notin {RemoveMessage, ChunkMessage}
    /\ (ppc \in {"new", "ready"} /\ Len(data) > 0)
          => /\ Len(p_level) = CeilDiv(Len(data), Pow2(Len(levels) - 1))
             /\ Len(p_level) = 1 => Len(levels) - 1 = CeilLog2(Len(data))
    /\ (ppc = "ready" /\ Len(data) > 0) => Len(p_level) = 1

\* one round turns a level of length m > 1 into one of length ceil(m / 2)
RoundHalves ==
    /\ (pc = "build" /\ pc' = "build")
          => /\ Len(current_level) > 1
             /\ Len(current_level') = CeilDiv(Len(current_level), 2)
             /\ height' = height + 1
    /\ (ppc = "new" /\ ppc' = "new")
          => /\ Len(p_level) > 1
             /\ Len(p_level') = CeilDiv(Len(p_level), 2)
             /\ Len(levels') = Len(levels) + 1

\* C18: termination of the reduction loop: for every non-empty leaf list of
\* length n the loop of build, and the loop of DefaultProofer::new,
\* terminates after exactly ceil(log2(n)) rounds, each round turning a level
\* of length m > 1 into a level of length ceil(m / 2), and ends with exactly
\* one node, so that removing element 0 never fails.
ReductionTerminates ==
    /\ []RoundCount
    /\ [][RoundHalves]_vars
    /\ (pc = "build") ~> (pc = "built")
    /\ (ppc = "new") ~> (ppc = "ready")

ReductionTerminatesWitness ==
    /\ pc = "built"
    /\ ppc = "ready"
    /\ Len(data) = MaxLen
    /\ height = CeilLog2(MaxLen)
    /\ Len(levels) = CeilLog2(MaxLen) + 1
    /\ Len(p_level) = 1
    /\ panic = ""

\* the input length and the height asserted by
\* test_merkle_tree_with_10_elements
TenElements == 10

TenElementsHeight == 5

\* C17: in the older merkle::merkletree variant MerkleTree::new completes
\* without panicking for every non-empty input, and a tree built from 10
\* items reports height() == 5.
OldVariantCompletes ==
    /\ Len(data) > 0 => pc # "panicked"
    /\ (pc = "built" /\ Len(data) = TenElements)
          => tree.height = TenElementsHeight

\* the slots written so far hold the parents of their own pair
InPairOrder(slots, parents) ==
    /\ Len(slots) = Len(parents)
    /\ \A i \in 1..Len(slots) : slots[i] # NoNode => slots[i] = parents[i]

\* C12: schedule independence of the parallel level reduction: in whatever
\* order and interleaving the workers hash the pairs of a level, the next
\* level holds the parents in pair order, and the root digest, the height
\* and the leaves are those of the sequential left-to-right reduction, for
\* the tree and for the levels of the proofer; every build of the same
\* input therefore ends in the same root digest.
ScheduleIndependence ==
    /\ pc = "map"
          => InPairOrder(results, CombinePairs(hasher, current_level))
    /\ pc = "build"
          => BuildLoop(hasher, current_level, height)
                = BuildLoop(hasher, HashLeaves(hasher, data), 0)
    /\ pc = "built"
          => /\ tree = BuildTree(hasher, data)
             /\ tree.root.hash = BuildTree(hasher, data).root.hash
             /\ tree.height = BuildTree(hasher, data).height
             /\ tree.leaves = BuildTree(hasher, data).leaves
    /\ ppc = "map"
          => InPairOrder(results, ProoferCombinePairs(hasher, p_level))
    /\ ppc = "new"
          => ProoferLoop(hasher, levels, p_level)
                = ProoferLevels(hasher, tree.leaves)
    /\ ppc = "ready" => levels = ProoferLevels(hasher, tree.leaves)

\* the tree was built by the parallel rounds, and in the proofer the last
\* pair of the leaf level is hashed while the first is not, with another
\* one in flight
ScheduleIndependenceWitness ==
    /\ pc = "built"
    /\ hasher = "SHA256"
    /\ Len(data) = MaxLen
    /\ tree = BuildTree(hasher, data)
    /\ ppc = "map"
    /\ Len(levels) = 1
    /\ results[1] = NoNode
    /\ results[Len(results)] # NoNode
    /\ 2 \in in_flight

\* C14: level barrier: within a round the padding of the level is complete
\* before any pair of it is hashed, and no pair of the next round is hashed
\* before every pair of this round is hashed and collected into the next
\* level: pairs are taken and hashed only between the padding and the
\* collect of one round, from a level of even length that does not change
\* meanwhile, and the collect happens only when no pair is left or in
\* flight.
LevelBarrierState ==
    /\ (in_flight # {} \/ \E i \in 1..Len(results) : results[i] # NoNode)
          => /\ pc = "map" \/ ppc = "map"
             /\ LET level == IF pc = "map" THEN current_level ELSE p_level
                IN  /\ Len(level) % 2 = 0
                    /\ Len(results) = Len(level) \div 2
                    /\ in_flight \subseteq 1..Len(results)
                    /\ \A i \in 1..Len(results) :
                         results[i] # NoNode
                            => /\ i \notin in_flight
                               /\ results[i].kind
                                    = <<level[2 * i - 1], level[2 * i]>>
    /\ pc = "map" => ppc = "none"
    /\ ppc = "map" => pc = "built"

LevelBarrierStep ==
    /\ (in_flight' # in_flight \/ results' # results) /\ results' # <<>>
          => \/ /\ results = <<>>
                /\ \A i \in 1..Len(results') : results'[i] = NoNode
                /\ in_flight' = {}
                /\ pc' = "map" \/ ppc' = "map"
             \/ /\ results # <<>>
                /\ UNCHANGED <<pc, ppc, current_level, p_level, height,
                               levels>>
    /\ (height' # height \/ levels' # levels) /\ results # <<>>
          => /\ in_flight = {}
             /\ \A i \in 1..Len(results) : results[i] # NoNode
             /\ results' = <<>>
             /\ in_flight' = {}
             /\ current_level' = results \/ p_level' = results

LevelBarrier == []LevelBarrierState /\ [][LevelBarrierStep]_vars

\* every pair but one of the padded five-node level is hashed, the last
\* one is in flight and the round has not been collected
LevelBarrierWitness ==
    /\ pc = "map"
    /\ height = 1
    /\ Len(results) = 3
    /\ Len(current_level) = 2 * Len(results)
    /\ current_level[Len(current_level)]
          = current_level[Len(current_level) - 1]
    /\ in_flight = {1}
    /\ \A i \in 2..Len(results) : results[i] # NoNode

====
